---- MODULE Spec2Model ----
(***************************************************************************)
(* Model of the requirement-gathering conversation agent                   *)
(* (Backend/agent_E.py, class AgentHandler) and of the endpoint that       *)
(* drives it (Backend/main.py, handle_conversation_turn).                  *)
(*                                                                         *)
(* A conversation state is a Python dict: here a function whose DOMAIN is  *)
(* the set of keys the dict holds.  The graph of AgentHandler keeps its    *)
(* own state G (channel values, "messages" reduced with operator.add),     *)
(* while run_first_turn / run_next_turn fold the node outputs into         *)
(* final_state with dict.update.                                           *)
(*                                                                         *)
(* The parser's reply is a sequence of lexical tokens: "{", "}", a token   *)
(* of prose, and member tokens each standing for one "key": value pair of  *)
(* a JSON object (adjacent members are comma-separated members).           *)
(***************************************************************************)
EXTENDS Integers, Sequences, FiniteSets, TLC

VARIABLES
  state,         \* the conversation state the caller holds (EmptyDict: none yet)
  supplied,      \* the dict handed to run_next_turn, as the call left it
  request,       \* the ConversationTurn of the last request
  trace,         \* the graph nodes entered while serving the last request
  parserInput,   \* latest_user_message of the last request
  llm,           \* what each LLM call of the last request returned
  result,        \* the outcome of the last request
  requirements,  \* rows of the Requirement table
  turns,         \* requests served
  dup,           \* a second run_next_turn on the same dict and user_input
  conv,          \* two conversations served concurrently, each with its run
  probe          \* one call of a single graph node: its input and its output

vars == <<state, supplied, request, trace, parserInput, llm, result,
          requirements, turns, dup, conv, probe>>

(* ------------------------------ bounds --------------------------------- *)

\* number of requests to the converse endpoint that are explored
MaxTurns == 3

(* ------------------------------ inputs --------------------------------- *)

InitialQueries == {"I need a car"}

UserInputs == {"an SUV", "not sure yet"}

\* what the checklist generator can return
Checklists ==
  {[category |-> "Car", essential_checklist |-> <<"budget", "car_type">>,
    optional_checklist |-> <<"color">>],
   [category |-> "Laptop", essential_checklist |-> <<"budget">>,
    optional_checklist |-> <<>>],
   [category |-> "Item", essential_checklist |-> <<>>,
    optional_checklist |-> <<"color">>]}

Questions == {"What is your budget?", "Which type?"}

\* lexical tokens of a parser reply
LB == "{"

RB == "}"

Prose == "prose"

mBudget == "\"budget\":\"1500\""

mBudgetNull == "\"budget\":null"

mCarType == "\"car_type\":\"SUV\""

mColor == "\"color\":\"red\""

mBudgetEmpty == "\"budget\":\"\""

\* a key and its colon, to be followed by a nested object
kBudget == "\"budget\":"

Members == {mBudget, mBudgetNull, mCarType, mColor, mBudgetEmpty}

ObjectKeys == {kBudget}

MemberKey == [m \in Members |->
                CASE m = mBudget -> "budget"
                  [] m = mBudgetNull -> "budget"
                  [] m = mCarType -> "car_type"
                  [] m = mColor -> "color"
                  [] m = mBudgetEmpty -> "budget"]

MemberValue == [m \in Members |->
                  CASE m = mBudget -> "1500"
                    [] m = mBudgetNull -> "null"
                    [] m = mCarType -> "SUV"
                    [] m = mColor -> "red"
                    [] m = mBudgetEmpty -> ""]

ObjectKey == [k \in ObjectKeys |-> "budget"]

\* replies of the parser's LLM: prose only, a brace missing, the braces in
\* the wrong order, prose between the braces, and decodable objects, bare
\* or wrapped in prose
Replies ==
  {<<Prose>>,
   <<LB, mBudget>>,
   <<mBudget, RB>>,
   <<RB, mBudget, LB>>,
   <<LB, Prose, RB>>,
   <<LB, RB>>,
   <<LB, mBudget, RB>>,
   <<Prose, LB, mCarType, RB, Prose>>,
   <<LB, mBudget, mCarType, RB>>,
   <<LB, mColor, RB>>,
   <<LB, mBudgetNull, RB>>}

(* --------------------------- dict helpers ------------------------------ *)

EmptyDict == [k \in {} |-> k]

Keys(d) == DOMAIN d

\* dict.get(key, default)
Get(d, key, default) == IF key \in DOMAIN d THEN d[key] ELSE default

\* dict.update(other): keys of other replace or extend those of d
DictUpdate(d, other) ==
  [k \in (DOMAIN d) \cup (DOMAIN other) |->
     IF k \in DOMAIN other THEN other[k] ELSE d[k]]

(* ------------------------------ messages ------------------------------- *)

HumanMessage(text) == [role |-> "human", content |-> [kind |-> "text", text |-> text]]

SystemMessage(c) == [role |-> "system", content |-> c]

Last(s) == s[Len(s)]

\* f"Generated checklist for {category}. Essentials: {essential_checklist}."
ChecklistText(category, essential) ==
  [kind |-> "checklist", category |-> category, essentials |-> essential]

\* key.replace('_', ' ').title()
TitleLabel(key) ==
  CASE key = "budget" -> "Budget"
    [] key = "car_type" -> "Car Type"
    [] key = "color" -> "Color"

(* ---------------------- LLM collaborator outcomes ---------------------- *)

\* checklist_generator_llm.invoke: a RequirementChecklist, or an exception
ChecklistReplies ==
  {[raised |-> FALSE, category |-> c.category,
    essential_checklist |-> c.essential_checklist,
    optional_checklist |-> c.optional_checklist] : c \in Checklists}
  \cup
  {[raised |-> TRUE, category |-> "", essential_checklist |-> <<>>,
    optional_checklist |-> <<>>]}

\* llm.invoke in the parser: response.content, or an exception
ParserReplies ==
  [raised : {FALSE}, content : Replies] \cup {[raised |-> TRUE, content |-> <<>>]}

\* llm.invoke in the question formulator: response.content, or an exception
QuestionReplies ==
  [raised : {FALSE}, content : Questions] \cup {[raised |-> TRUE, content |-> ""]}

NotCalled == [raised |-> FALSE, content |-> <<>>, notCalled |-> TRUE]

(* ---------------------- best-effort JSON extraction -------------------- *)

\* str.find: 0-based index of the first occurrence, -1 when there is none
Find(raw, tok) ==
  IF \E i \in 1..Len(raw) : raw[i] = tok
    THEN (CHOOSE i \in 1..Len(raw) :
            /\ raw[i] = tok
            /\ \A j \in 1..(i - 1) : raw[j] # tok) - 1
    ELSE -1

\* str.rfind: 0-based index of the last occurrence, -1 when there is none
RFind(raw, tok) ==
  IF \E i \in 1..Len(raw) : raw[i] = tok
    THEN (CHOOSE i \in 1..Len(raw) :
            /\ raw[i] = tok
            /\ \A j \in (i + 1)..Len(raw) : raw[j] # tok) - 1
    ELSE -1

\* variant of Slice: the end index is taken as inclusive
Slice_to_inclusive(raw, a, b) == SubSeq(raw, a + 1, b - 1)

\* raw[a : b] for 0 <= a, 0 <= b <= len(raw)
Slice(raw, a, b) == SubSeq(raw, a + 1, b)

\* the text of a run of tokens: the value kept for a nested object
RECURSIVE Text(_)
Text(toks) == IF toks = <<>> THEN "" ELSE toks[1] \o Text(Tail(toks))

\* json.loads after a "{": members up to the matching "}".  A member is a
\* key with a scalar value, or a key with a nested object; a repeated key
\* keeps its last value.  next is the index after the matching "}".
RECURSIVE ParseMembers(_, _, _)
ParseMembers(toks, j, acc) ==
  LET failed == [ok |-> FALSE, next |-> j, value |-> acc]
  IN IF j > Len(toks) THEN failed
     ELSE IF toks[j] = RB THEN [ok |-> TRUE, next |-> j + 1, value |-> acc]
     ELSE IF toks[j] \in Members
       THEN ParseMembers(toks, j + 1,
                         DictUpdate(acc, MemberKey[toks[j]] :> MemberValue[toks[j]]))
     ELSE IF toks[j] \in ObjectKeys /\ j + 1 <= Len(toks) /\ toks[j + 1] = LB
       THEN LET inner == ParseMembers(toks, j + 2, EmptyDict)
            IN IF inner.ok
                 THEN ParseMembers(toks, inner.next,
                        DictUpdate(acc, ObjectKey[toks[j]] :>
                                          Text(SubSeq(toks, j + 1, inner.next - 1))))
                 ELSE failed
     ELSE failed

\* json.loads: the text is one object and nothing else; anything else raises
\* JSONDecodeError
JsonValid(toks) ==
  /\ Len(toks) >= 2
  /\ toks[1] = LB
  /\ LET parsed == ParseMembers(toks, 2, EmptyDict)
     IN parsed.ok /\ parsed.next = Len(toks) + 1

JsonObject(toks) == ParseMembers(toks, 2, EmptyDict).value

JsonLoads(toks) ==
  IF JsonValid(toks)
    THEN [ok |-> TRUE, value |-> JsonObject(toks)]
    ELSE [ok |-> FALSE, value |-> EmptyDict]

\* variant of MergeReply: a key extracted earlier keeps its first value
MergeReply_first_wins(updated_reqs, raw_content) ==
  LET start_index == Find(raw_content, LB)
      end_index == RFind(raw_content, RB)
      clean_json_str == Slice(raw_content, start_index, end_index + 1)
      decoded == JsonLoads(clean_json_str)
  IN IF start_index # -1 /\ end_index # -1 /\ decoded.ok
       THEN DictUpdate(decoded.value, updated_reqs)
       ELSE updated_reqs

\* variant of MergeReply: a reply that does not decode clears the mapping
MergeReply_clears(updated_reqs, raw_content) ==
  LET start_index == Find(raw_content, LB)
      end_index == RFind(raw_content, RB)
      clean_json_str == Slice(raw_content, start_index, end_index + 1)
      decoded == JsonLoads(clean_json_str)
  IN IF start_index # -1 /\ end_index # -1 /\ decoded.ok
       THEN DictUpdate(updated_reqs, decoded.value)
       ELSE EmptyDict

\* the try block of _update_and_parse_node applied to updated_reqs
MergeReply(updated_reqs, raw_content) ==
  LET start_index == Find(raw_content, LB)
      end_index == RFind(raw_content, RB)
      clean_json_str == Slice(raw_content, start_index, end_index + 1)
      decoded == JsonLoads(clean_json_str)
  IN IF start_index # -1 /\ end_index # -1 /\ decoded.ok
       THEN DictUpdate(updated_reqs, decoded.value)
       ELSE updated_reqs

(* ------------------------------ graph nodes ---------------------------- *)

\* variant of _conditional_start_node: only a missing key starts at the
\* generator
_conditional_start_node_absent_only(st) ==
  IF "essential_checklist" \notin DOMAIN st
    THEN "generate_checklist"
    ELSE "update_and_parse"

_conditional_start_node(st) ==
  IF "essential_checklist" \notin DOMAIN st \/ st["essential_checklist"] = <<>>
    THEN "generate_checklist"
    ELSE "update_and_parse"

_generate_checklist_node(st, response) ==
  [category |-> response.category,
   essential_checklist |-> response.essential_checklist,
   optional_checklist |-> response.optional_checklist,
   messages |-> <<SystemMessage(ChecklistText(response.category,
                                              response.essential_checklist))>>]

\* the text placed in the extraction prompt
latest_user_message(st) == Last(st["messages"]).content

\* variant of _update_and_parse_node: a decoded object replaces the mapping
_update_and_parse_node_replaces(st, response) ==
  LET updated_reqs == Get(st, "extracted_requirements", EmptyDict)
      decoded == MergeReply(EmptyDict, response.content)
  IN [extracted_requirements |->
        IF decoded = EmptyDict THEN updated_reqs ELSE decoded]

\* variant of _update_and_parse_node: starts from an empty mapping instead
\* of a copy of the state's
_update_and_parse_node_fresh(st, response) ==
  [extracted_requirements |-> MergeReply(EmptyDict, response.content)]

\* variant of _update_and_parse_node: returns no update when the reply
\* added nothing
_update_and_parse_node_bare(st, response) ==
  LET updated_reqs == Get(st, "extracted_requirements", EmptyDict)
      merged == MergeReply(updated_reqs, response.content)
  IN IF merged = updated_reqs
       THEN EmptyDict
       ELSE [extracted_requirements |-> merged]

\* variant of _update_and_parse_node: every checklist key the reply left
\* out is stored as "N/A"
_update_and_parse_node_defaults(st, response) ==
  LET updated_reqs == Get(st, "extracted_requirements", EmptyDict)
      merged == MergeReply(updated_reqs, response.content)
      known == {st["essential_checklist"][i] : i \in DOMAIN st["essential_checklist"]}
                 \cup
               {st["optional_checklist"][i] : i \in DOMAIN st["optional_checklist"]}
  IN [extracted_requirements |->
        [k \in (DOMAIN merged) \cup known |->
           IF k \in DOMAIN merged THEN merged[k] ELSE "N/A"]]

_update_and_parse_node(st, response) ==
  LET updated_reqs == Get(st, "extracted_requirements", EmptyDict)
  IN [extracted_requirements |-> MergeReply(updated_reqs, response.content)]

\* [req for req in checklist if req not in extracted_keys]
Missing(checklist, extracted_keys) ==
  SelectSeq(checklist, LAMBDA req : req \notin extracted_keys)

\* variant of missing_reqs: only the essential keys are looked at
missing_reqs_essential_only(st) ==
  Missing(st["essential_checklist"],
          Keys(Get(st, "extracted_requirements", EmptyDict)))

missing_reqs(st) ==
  Missing(st["essential_checklist"] \o st["optional_checklist"],
          Keys(Get(st, "extracted_requirements", EmptyDict)))

\* variant of _ask_question_node: sets next but emits no message
_ask_question_node_silent(st, response) ==
  [next |-> "wait_for_user_input"]

_ask_question_node(st, response) ==
  [messages |-> <<SystemMessage([kind |-> "question", text |-> response.content])>>,
   next |-> "wait_for_user_input"]

\* variant of _router_node: a key whose value is null or empty counts as
\* missing
_router_node_checks_values(st) ==
  LET extracted == Get(st, "extracted_requirements", EmptyDict)
      extracted_keys == {k \in DOMAIN extracted : extracted[k] \notin {"null", ""}}
      missing_essential_reqs == Missing(st["essential_checklist"], extracted_keys)
  IN IF missing_essential_reqs = <<>> THEN "final_summary" ELSE "ask_question"

\* variant of _router_node: optional keys must be extracted as well
_router_node_wants_optional(st) ==
  LET extracted_keys == Keys(Get(st, "extracted_requirements", EmptyDict))
      missing_essential_reqs ==
        Missing(st["essential_checklist"] \o st["optional_checklist"], extracted_keys)
  IN IF missing_essential_reqs = <<>> THEN "final_summary" ELSE "ask_question"

\* variant of _router_node: a state already marked complete stays complete
_router_node_trusts_next(st) ==
  LET extracted_keys == Keys(Get(st, "extracted_requirements", EmptyDict))
      missing_essential_reqs == Missing(st["essential_checklist"], extracted_keys)
  IN IF missing_essential_reqs = <<>> \/ Get(st, "next", "") = "end_conversation"
       THEN "final_summary" ELSE "ask_question"

_router_node(st) ==
  LET extracted_keys == Keys(Get(st, "extracted_requirements", EmptyDict))
      missing_essential_reqs == Missing(st["essential_checklist"], extracted_keys)
  IN IF missing_essential_reqs = <<>> THEN "final_summary" ELSE "ask_question"

\* variant of SummaryLines: a key without a value is listed as "N/A"
SummaryLines_lists_absent(checklist, final_reqs) ==
  [i \in 1..Len(checklist) |->
     [label |-> TitleLabel(checklist[i]),
      value |-> Get(final_reqs, checklist[i], "N/A")]]

SummaryLines(checklist, final_reqs) ==
  LET present == SelectSeq(checklist, LAMBDA key : key \in DOMAIN final_reqs)
  IN [i \in 1..Len(present) |->
        [label |-> TitleLabel(present[i]), value |-> final_reqs[present[i]]]]

\* variant of _final_summary_node: every checklist key without a value is
\* stored as "N/A" and listed
_final_summary_node_fills(st) ==
  LET checklist == st["essential_checklist"] \o st["optional_checklist"]
      given == Get(st, "extracted_requirements", EmptyDict)
      final_reqs == [k \in (DOMAIN given) \cup {checklist[i] : i \in DOMAIN checklist} |->
                       IF k \in DOMAIN given THEN given[k] ELSE "N/A"]
      summary_message ==
        [kind |-> "summary", category |-> st["category"],
         lines |-> SummaryLines(checklist, final_reqs)]
  IN [messages |-> <<SystemMessage(summary_message)>>,
      extracted_requirements |-> final_reqs,
      next |-> "end_conversation"]

_final_summary_node(st) ==
  LET final_reqs == Get(st, "extracted_requirements", EmptyDict)
      summary_message ==
        [kind |-> "summary", category |-> st["category"],
         lines |-> SummaryLines(st["essential_checklist"] \o st["optional_checklist"],
                                final_reqs)]
  IN [messages |-> <<SystemMessage(summary_message)>>,
      next |-> "end_conversation"]

(* --------------------------- graph execution --------------------------- *)

\* a node output applied to the graph state: "messages" is reduced with
\* operator.add, every other channel keeps the last value written
ApplyToGraph(G, out) ==
  [k \in (DOMAIN G) \cup (DOMAIN out) |->
     IF k \notin DOMAIN out THEN G[k]
     ELSE IF k = "messages" /\ k \in DOMAIN G THEN G[k] \o out[k]
     ELSE out[k]]

\* final_state.update(node_output) in run_first_turn / run_next_turn
FoldEvent(final_state, node_output) == DictUpdate(final_state, node_output)

NotRun == [kind |-> "not_run"]

\* variant of RunGraph: no edge leaves update_and_parse, the stream ends there
RunGraph_ends_after_parser(input_state, gen, reply, question) ==
  LET start == _conditional_start_node(input_state)
      genRuns == start = "generate_checklist"
      genOut == _generate_checklist_node(input_state, gen)
      G1 == IF genRuns THEN ApplyToGraph(input_state, genOut) ELSE input_state
      F1 == IF genRuns THEN FoldEvent(input_state, genOut) ELSE input_state
      parseOut == _update_and_parse_node(G1, reply)
      F2 == FoldEvent(F1, parseOut)
      genTrace == IF genRuns THEN <<"generate_checklist">> ELSE <<>>
  IN IF genRuns /\ gen.raised
       THEN [raised |-> TRUE, final_state |-> input_state, trace |-> genTrace,
             parsed |-> NotRun, route |-> "none"]
     ELSE IF reply.raised
       THEN [raised |-> TRUE, final_state |-> F1,
             trace |-> genTrace \o <<"update_and_parse">>,
             parsed |-> latest_user_message(G1), route |-> "none"]
     ELSE [raised |-> FALSE, final_state |-> F2,
           trace |-> genTrace \o <<"update_and_parse">>,
           parsed |-> latest_user_message(G1), route |-> "none"]

\* self.app.astream(input_state) folded into final_state, up to the break
\* after "ask_question" or "final_summary"; an exception of an LLM call
\* leaves the loop
RunGraph(input_state, gen, reply, question) ==
  LET start == _conditional_start_node(input_state)
      genRuns == start = "generate_checklist"
      genOut == _generate_checklist_node(input_state, gen)
      G1 == IF genRuns THEN ApplyToGraph(input_state, genOut) ELSE input_state
      F1 == IF genRuns THEN FoldEvent(input_state, genOut) ELSE input_state
      parseOut == _update_and_parse_node(G1, reply)
      G2 == ApplyToGraph(G1, parseOut)
      F2 == FoldEvent(F1, parseOut)
      route == _router_node(G2)
      lastOut == IF route = "ask_question"
                   THEN _ask_question_node(G2, question)
                   ELSE _final_summary_node(G2)
      F3 == FoldEvent(F2, lastOut)
      genTrace == IF genRuns THEN <<"generate_checklist">> ELSE <<>>
  IN IF genRuns /\ gen.raised
       THEN [raised |-> TRUE, final_state |-> input_state, trace |-> genTrace,
             parsed |-> NotRun, route |-> "none"]
     ELSE IF reply.raised
       THEN [raised |-> TRUE, final_state |-> F1,
             trace |-> genTrace \o <<"update_and_parse">>,
             parsed |-> latest_user_message(G1), route |-> "none"]
     ELSE IF route = "ask_question" /\ question.raised
       THEN [raised |-> TRUE, final_state |-> F2,
             trace |-> genTrace \o <<"update_and_parse", "ask_question">>,
             parsed |-> latest_user_message(G1), route |-> route]
     ELSE [raised |-> FALSE, final_state |-> F3,
           trace |-> genTrace \o <<"update_and_parse", route>>,
           parsed |-> latest_user_message(G1), route |-> route]

\* which LLM calls a run makes, so that only those are enumerated
GenChoices(input_state) ==
  IF _conditional_start_node(input_state) = "generate_checklist"
    THEN ChecklistReplies ELSE {NotCalled}

ReplyChoices(gen) == IF gen.raised THEN {NotCalled} ELSE ParserReplies

QuestionChoices(input_state, gen, reply) ==
  IF gen.raised \/ reply.raised THEN {NotCalled}
  ELSE LET G1 == IF _conditional_start_node(input_state) = "generate_checklist"
                   THEN ApplyToGraph(input_state,
                                     _generate_checklist_node(input_state, gen))
                   ELSE input_state
           G2 == ApplyToGraph(G1, _update_and_parse_node(G1, reply))
       IN IF _router_node(G2) = "ask_question" THEN QuestionReplies ELSE {NotCalled}

(* ------------------------- public turn methods ------------------------- *)

initial_state(initial_query) ==
  [initial_query |-> initial_query, messages |-> <<HumanMessage(initial_query)>>]

\* variant of appended: the new utterance also becomes the initial query
appended_requeries(current_state, user_input) ==
  [current_state EXCEPT !["messages"] = Append(@, HumanMessage(user_input)),
                        !["initial_query"] = user_input]

\* current_state["messages"].append(HumanMessage(content=user_input))
appended(current_state, user_input) ==
  [current_state EXCEPT !["messages"] = Append(@, HumanMessage(user_input))]

run_first_turn(initial_query, gen, reply, question) ==
  RunGraph(initial_state(initial_query), gen, reply, question)

run_next_turn(current_state, user_input, gen, reply, question) ==
  RunGraph(appended(current_state, user_input), gen, reply, question)

get_agent_response(st) == Last(st["messages"]).content

is_conversation_complete(st) == Get(st, "next", "") = "end_conversation"

\* the conversations served side by side by the one agent_handler
Convs == {1, 2}

\* a conversation with no request in flight and none served yet
Idle ==
  [pc |-> "idle", held |-> EmptyDict, input |-> EmptyDict, G |-> EmptyDict,
   F |-> EmptyDict, gen |-> NotCalled, reply |-> NotCalled,
   question |-> NotCalled, inserted |-> TRUE, outcome |-> "none",
   response |-> NotRun, turns |-> 0, overlapped |-> FALSE]

\* no node has been called on its own
NoProbe == [op |-> "none"]

(* ------------------------------ endpoint ------------------------------- *)

NoResult ==
  [status |-> "none", response |-> NotRun, is_complete |-> FALSE, requirement_id |-> 0]

ErrorResult ==
  [status |-> "error", response |-> NotRun, is_complete |-> FALSE, requirement_id |-> 0]

data_to_insert(result_state, id) ==
  [id |-> id,
   title |-> Get(result_state, "category", "Item"),
   status |-> "Submitted",
   initial_query |-> Get(result_state, "initial_query", ""),
   extracted_requirements |-> Get(result_state, "extracted_requirements", EmptyDict)]

\* variant of Respond: an exception of the agent's run is not treated as a
\* failure of the request
Respond_ignores_raise(run, inserted) ==
  LET result_state == run.final_state
      is_complete == is_conversation_complete(result_state)
      id == Len(requirements) + 1
  IN IF is_complete /\ ~inserted
       THEN /\ result' = ErrorResult
            /\ UNCHANGED <<state, requirements>>
       ELSE /\ result' = [status |-> "ok",
                          response |-> get_agent_response(result_state),
                          is_complete |-> is_complete,
                          requirement_id |-> IF is_complete THEN id ELSE 0]
            /\ state' = result_state
            /\ requirements' =
                 IF is_complete
                   THEN Append(requirements, data_to_insert(result_state, id))
                   ELSE requirements

\* variant of Respond: the Requirement row is inserted on every answered turn
Respond_inserts_always(run, inserted) ==
  LET result_state == run.final_state
      is_complete == is_conversation_complete(result_state)
      id == Len(requirements) + 1
  IN IF run.raised \/ (is_complete /\ ~inserted)
       THEN /\ result' = ErrorResult
            /\ UNCHANGED <<state, requirements>>
       ELSE /\ result' = [status |-> "ok",
                          response |-> get_agent_response(result_state),
                          is_complete |-> is_complete,
                          requirement_id |-> IF is_complete THEN id ELSE 0]
            /\ state' = result_state
            /\ requirements' = Append(requirements, data_to_insert(result_state, id))

\* the body of handle_conversation_turn after the agent has run
Respond(run, inserted) ==
  LET result_state == run.final_state
      is_complete == is_conversation_complete(result_state)
      id == Len(requirements) + 1
  IN IF run.raised \/ (is_complete /\ ~inserted)
       THEN /\ result' = ErrorResult
            /\ UNCHANGED <<state, requirements>>
       ELSE /\ result' = [status |-> "ok",
                          response |-> get_agent_response(result_state),
                          is_complete |-> is_complete,
                          requirement_id |-> IF is_complete THEN id ELSE 0]
            /\ state' = result_state
            /\ requirements' =
                 IF is_complete
                   THEN Append(requirements, data_to_insert(result_state, id))
                   ELSE requirements

InsertChoices(run) ==
  IF ~run.raised /\ is_conversation_complete(run.final_state)
    THEN BOOLEAN ELSE {TRUE}

\* the LLM calls a run made, with what each returned
Calls(run, gen, reply, question) ==
  LET entered == {run.trace[i] : i \in DOMAIN run.trace}
  IN [checklist |-> IF "generate_checklist" \in entered THEN gen ELSE NotCalled,
      parser |-> IF "update_and_parse" \in entered THEN reply ELSE NotCalled,
      question |-> IF "ask_question" \in entered THEN question ELSE NotCalled]

NoDup == [done |-> FALSE]

\* handle_conversation_turn once the agent's run is known
Served(run, gen, reply, question) ==
  /\ \E inserted \in InsertChoices(run) : Respond(run, inserted)
  /\ trace' = run.trace
  /\ parserInput' = run.parsed
  /\ llm' = Calls(run, gen, reply, question)
  /\ turns' = turns + 1

\* handle_conversation_turn with turn.state = None
StartConversation ==
  /\ turns < MaxTurns
  /\ state = EmptyDict
  /\ \E initial_query \in InitialQueries :
       /\ \E gen \in GenChoices(initial_state(initial_query)) :
            \E reply \in ReplyChoices(gen) :
              \E question \in QuestionChoices(initial_state(initial_query), gen, reply) :
                Served(run_first_turn(initial_query, gen, reply, question),
                       gen, reply, question)
       /\ request' = [user_input |-> initial_query, has_state |-> FALSE,
                      state |-> EmptyDict]
       /\ supplied' = EmptyDict
       /\ dup' = NoDup
       /\ UNCHANGED <<conv, probe>>

\* handle_conversation_turn with the state the previous response carried
ContinueConversation ==
  /\ turns < MaxTurns
  /\ state # EmptyDict
  /\ \E user_input \in UserInputs :
       /\ \E gen \in GenChoices(appended(state, user_input)) :
            \E reply \in ReplyChoices(gen) :
              \E question \in QuestionChoices(appended(state, user_input), gen, reply) :
                Served(run_next_turn(state, user_input, gen, reply, question),
                       gen, reply, question)
       /\ request' = [user_input |-> user_input, has_state |-> TRUE,
                      state |-> state]
       /\ supplied' = appended(state, user_input)
       /\ dup' = NoDup
       /\ UNCHANGED <<conv, probe>>

Init ==
  /\ state = EmptyDict
  /\ supplied = EmptyDict
  /\ request = [user_input |-> "", has_state |-> FALSE, state |-> EmptyDict]
  /\ trace = <<>>
  /\ parserInput = NotRun
  /\ llm = [checklist |-> NotCalled, parser |-> NotCalled, question |-> NotCalled]
  /\ result = NoResult
  /\ requirements = <<>>
  /\ turns = 0
  /\ dup = NoDup
  /\ conv = [c \in Convs |-> Idle]
  /\ probe = NoProbe

Next == StartConversation \/ ContinueConversation

Spec == Init /\ [][Next]_vars

(* ------------------------- duplicate submission ------------------------ *)

\* the graph state the parser sees, and the one the router sees
AfterGen(input_state, gen) ==
  IF _conditional_start_node(input_state) = "generate_checklist"
    THEN ApplyToGraph(input_state, _generate_checklist_node(input_state, gen))
    ELSE input_state

AfterParse(input_state, gen, reply) ==
  ApplyToGraph(AfterGen(input_state, gen),
               _update_and_parse_node(AfterGen(input_state, gen), reply))

\* what each prompt is built from
ChecklistPrompt(st) == [initial_query |-> st["initial_query"]]

ParserPrompt(st) ==
  [category |-> st["category"],
   fields |-> st["essential_checklist"] \o st["optional_checklist"],
   message |-> latest_user_message(st)]

QuestionPrompt(st) ==
  [category |-> st["category"],
   provided |-> st["extracted_requirements"],
   missing |-> missing_reqs(st)]

\* an LLM that is a function of its prompt: a call of the second run whose
\* prompt equals that of the same call of the first run returns the same
SameAnswers(first_input, second_input, gen, reply, question) ==
  LET called(r) == "notCalled" \notin DOMAIN r
  IN /\ (called(gen) /\ called(llm.checklist)
          /\ ChecklistPrompt(second_input) = ChecklistPrompt(first_input))
         => gen = llm.checklist
     /\ (called(reply) /\ called(llm.parser) /\ ~gen.raised
          /\ ParserPrompt(AfterGen(second_input, gen))
               = ParserPrompt(AfterGen(first_input, llm.checklist)))
         => reply = llm.parser
     /\ (called(question) /\ called(llm.question) /\ ~gen.raised /\ ~reply.raised
          /\ QuestionPrompt(AfterParse(second_input, gen, reply))
               = QuestionPrompt(AfterParse(first_input, llm.checklist, llm.parser)))
         => question = llm.question

\* the caller repeats run_next_turn with the dict object and the user_input
\* of the request just served
Resubmit ==
  /\ request.has_state
  /\ result.status = "ok"
  /\ ~dup.done
  /\ LET second_input == appended(supplied, request.user_input)
     IN \E gen \in GenChoices(second_input) :
          \E reply \in ReplyChoices(gen) :
            \E question \in QuestionChoices(second_input, gen, reply) :
              LET run == run_next_turn(supplied, request.user_input,
                                       gen, reply, question)
              IN /\ SameAnswers(supplied, second_input, gen, reply, question)
                 /\ dup' = [done |-> TRUE,
                            observed |-> supplied,
                            raised |-> run.raised,
                            state |-> run.final_state]
  /\ UNCHANGED <<state, supplied, request, trace, parserInput, llm, result,
               requirements, turns, conv, probe>>

NextDup == Next \/ Resubmit

SpecDup == Init /\ [][NextDup]_vars

(* ----------------------- caller contract violations -------------------- *)

\* requests explored when the caller may break the contract
MaxContractTurns == 2

\* a state whose checklist was never populated
Unpopulated(st) ==
  [k \in (DOMAIN st) \ {"category", "essential_checklist", "optional_checklist"} |->
     st[k]]

\* a state whose message log is empty
EmptyLog(st) == [st EXCEPT !["messages"] = <<>>]

\* the utterance sent along with such a state
ContractUserInputs == {"an SUV"}

\* handle_conversation_turn with a state that breaks the caller's contract
ContinueViolating ==
  /\ turns < MaxContractTurns
  /\ state # EmptyDict
  /\ \E user_input \in ContractUserInputs,
        sent \in {Unpopulated(state), EmptyLog(state)} :
       /\ \E gen \in GenChoices(appended(sent, user_input)) :
            \E reply \in ReplyChoices(gen) :
              \E question \in QuestionChoices(appended(sent, user_input), gen, reply) :
                Served(run_next_turn(sent, user_input, gen, reply, question),
                       gen, reply, question)
       /\ request' = [user_input |-> user_input, has_state |-> TRUE,
                      state |-> sent]
       /\ supplied' = appended(sent, user_input)
       /\ dup' = NoDup
       /\ UNCHANGED <<conv, probe>>

NextContract == (turns < MaxContractTurns /\ Next) \/ ContinueViolating

SpecContract == Init /\ [][NextContract]_vars

(* ------------------------- two conversations --------------------------- *)

\* requests started, over both conversations
MaxTwoTurns == 2

\* each conversation's initial query
QueryOf == <<"I need a car", "I need a laptop">>

TwoUserInputs == {"an SUV"}

TwoChecklistReplies ==
  {g \in ChecklistReplies : g.raised \/ g.category \in {"Car", "Item"}}

TwoParserReplies ==
  {r \in ParserReplies :
     r.raised \/ r.content \in {<<Prose>>, <<LB, mBudget, mCarType, RB>>,
                                <<LB, mColor, RB>>}}

TwoQuestionReplies ==
  {q \in QuestionReplies : q.raised \/ q.content = "Which type?"}

handlerVars ==
  <<state, supplied, request, trace, parserInput, llm, result, requirements,
    turns, dup, probe>>

\* variant of StoreRun: final_state is kept on the handler, one for all runs
StoreRun_on_handler(cv, c, run) ==
  [d \in Convs |-> IF d = c THEN run ELSE [cv[d] EXCEPT !.F = run.F]]

\* the run of conversation c keeps its graph state and its final_state in
\* the locals of its own call of run_first_turn / run_next_turn
StoreRun(cv, c, run) == [cv EXCEPT ![c] = run]

\* whether another conversation's request is in flight
Overlaps(c) == \E d \in Convs \ {c} : conv[d].pc # "idle"

\* the request fails: HTTP 500, the caller keeps the state it had
Fails(run) == [run EXCEPT !.pc = "idle", !.outcome = "error", !.response = NotRun]

\* the request is answered with the run's final_state
Answers(run, final_state) ==
  [run EXCEPT !.pc = "idle", !.outcome = "ok", !.held = final_state,
              !.F = final_state,
              !.response = get_agent_response(final_state)]

\* a request of conversation c arrives: run_first_turn or run_next_turn up to
\* the entry point of the graph
Begin(c) ==
  /\ conv[c].pc = "idle"
  /\ conv[1].turns + conv[2].turns < MaxTwoTurns
  /\ \E user_input \in TwoUserInputs :
       LET input_state == IF conv[c].held = EmptyDict
                            THEN initial_state(QueryOf[c])
                            ELSE appended(conv[c].held, user_input)
       IN conv' = StoreRun(conv, c,
                    [conv[c] EXCEPT !.pc = _conditional_start_node(input_state),
                                    !.input = input_state,
                                    !.G = input_state,
                                    !.F = input_state,
                                    !.gen = NotCalled,
                                    !.reply = NotCalled,
                                    !.question = NotCalled,
                                    !.inserted = TRUE,
                                    !.outcome = "none",
                                    !.response = NotRun,
                                    !.turns = @ + 1,
                                    !.overlapped = Overlaps(c)])
  /\ UNCHANGED handlerVars

\* the generate_checklist node of conversation c's run
StepGenerate(c) ==
  /\ conv[c].pc = "generate_checklist"
  /\ \E gen \in TwoChecklistReplies :
       LET run == [conv[c] EXCEPT !.gen = gen,
                                  !.overlapped = @ \/ Overlaps(c)]
           out == _generate_checklist_node(run.G, gen)
       IN conv' = StoreRun(conv, c,
                    IF gen.raised THEN Fails(run)
                    ELSE [run EXCEPT !.pc = "update_and_parse",
                                     !.G = ApplyToGraph(run.G, out),
                                     !.F = FoldEvent(run.F, out)])
  /\ UNCHANGED handlerVars

\* the update_and_parse node of conversation c's run, then the router
StepParse(c) ==
  /\ conv[c].pc = "update_and_parse"
  /\ \E reply \in TwoParserReplies :
       LET run == [conv[c] EXCEPT !.reply = reply,
                                  !.overlapped = @ \/ Overlaps(c)]
           out == _update_and_parse_node(run.G, reply)
           G2 == ApplyToGraph(run.G, out)
       IN conv' = StoreRun(conv, c,
                    IF reply.raised THEN Fails(run)
                    ELSE [run EXCEPT !.pc = _router_node(G2),
                                     !.G = G2,
                                     !.F = FoldEvent(run.F, out)])
  /\ UNCHANGED handlerVars

\* the ask_question node of conversation c's run, and the response
StepAsk(c) ==
  /\ conv[c].pc = "ask_question"
  /\ \E question \in TwoQuestionReplies :
       LET run == [conv[c] EXCEPT !.question = question,
                                  !.overlapped = @ \/ Overlaps(c)]
           out == _ask_question_node(run.G, question)
       IN conv' = StoreRun(conv, c,
                    IF question.raised THEN Fails(run)
                    ELSE Answers(run, FoldEvent(run.F, out)))
  /\ UNCHANGED handlerVars

\* the final_summary node of conversation c's run, the insert and the response
StepFinal(c) ==
  /\ conv[c].pc = "final_summary"
  /\ \E inserted \in BOOLEAN :
       LET run == [conv[c] EXCEPT !.inserted = inserted,
                                  !.overlapped = @ \/ Overlaps(c)]
           out == _final_summary_node(run.G)
       IN conv' = StoreRun(conv, c,
                    IF ~inserted THEN Fails(run)
                    ELSE Answers(run, FoldEvent(run.F, out)))
  /\ UNCHANGED handlerVars

NextTwo ==
  \E c \in Convs :
    \/ Begin(c)
    \/ StepGenerate(c)
    \/ StepParse(c)
    \/ StepAsk(c)
    \/ StepFinal(c)

SpecTwo == Init /\ [][NextTwo]_vars

(* --------------------------- user confirmation ------------------------- *)

\* requests of all kinds that are explored
MaxRequests == 4

\* statuses an admin sets through the status endpoint
Statuses == {"InReview", "SentForUserConfirmation"}

NoComment == [given |-> FALSE, text |-> ""]

Comment(text) == [given |-> TRUE, text |-> text]

\* UserConfirmationRequest: action, and comment (None when left out)
Confirmations ==
  [action : {"approve", "request_changes", "reject"},
   comment : {NoComment, Comment(""), Comment("cheaper please")}]

\* what the database does with the update and the re-fetch
DbOutcomes == {"ok", "update_fails", "refetch_fails"}

\* record['status'] != 'SentForUserConfirmation' raises
AwaitingConfirmation(record) == record.status = "SentForUserConfirmation"

\* variant of UpdateData: request_changes is taken without a comment
UpdateData_comment_optional(record, confirmation) ==
  IF confirmation.action = "approve"
    THEN [ok |-> TRUE, data |-> [status |-> "UserConfirmed"]]
  ELSE IF confirmation.action = "request_changes"
    THEN [ok |-> TRUE,
          data |-> [status |-> "Submitted",
                    initial_query |->
                      record.initial_query
                        \o "\n\n--- User Requested Changes ---\n"
                        \o confirmation.comment.text]]
  ELSE [ok |-> FALSE, data |-> EmptyDict]

\* update_data of handle_user_confirmation, or the 400 it raises
UpdateData(record, confirmation) ==
  IF confirmation.action = "approve"
    THEN [ok |-> TRUE, data |-> [status |-> "UserConfirmed"]]
  ELSE IF confirmation.action = "request_changes"
    THEN IF ~confirmation.comment.given \/ confirmation.comment.text = ""
           THEN [ok |-> FALSE, data |-> EmptyDict]
           ELSE [ok |-> TRUE,
                 data |-> [status |-> "Submitted",
                           initial_query |->
                             record.initial_query
                               \o "\n\n--- User Requested Changes ---\n"
                               \o confirmation.comment.text]]
  ELSE [ok |-> FALSE, data |-> EmptyDict]

confirmVars == <<state, supplied, trace, parserInput, llm, dup, conv, probe>>

\* update_requirement_status on a stored Requirement
update_requirement_status ==
  /\ turns < MaxRequests
  /\ \E requirement_id \in DOMAIN requirements, status \in Statuses :
       /\ requirements' = [requirements EXCEPT ![requirement_id] =
                             DictUpdate(@, [status |-> status])]
       /\ request' = [requirement_id |-> requirement_id, status |-> status]
       /\ result' = [status |-> "ok", record |-> requirements'[requirement_id]]
  /\ turns' = turns + 1
  /\ UNCHANGED confirmVars

\* handle_user_confirmation: every exception ends in an HTTP error
handle_user_confirmation ==
  /\ turns < MaxRequests
  /\ \E requirement_id \in 1..(Len(requirements) + 1),
        confirmation \in Confirmations, db \in DbOutcomes :
       /\ IF requirement_id \notin DOMAIN requirements
            THEN /\ result' = ErrorResult
                 /\ requirements' = requirements
          ELSE LET record == requirements[requirement_id]
                   update_data == UpdateData(record, confirmation)
               IN IF \/ ~AwaitingConfirmation(record)
                     \/ ~update_data.ok
                     \/ db = "update_fails"
                    THEN /\ result' = ErrorResult
                         /\ requirements' = requirements
                    ELSE /\ requirements' =
                              [requirements EXCEPT ![requirement_id] =
                                 DictUpdate(record, update_data.data)]
                         /\ result' =
                              IF db = "refetch_fails"
                                THEN ErrorResult
                                ELSE [status |-> "ok",
                                      record |-> DictUpdate(record, update_data.data)]
       /\ request' = [requirement_id |-> requirement_id,
                      action |-> confirmation.action,
                      comment |-> confirmation.comment]
  /\ turns' = turns + 1
  /\ UNCHANGED confirmVars

\* the conversation's first request may store a Requirement; the admin and
\* the user then work on it
NextConfirm ==
  \/ StartConversation
  \/ update_requirement_status
  \/ handle_user_confirmation

SpecConfirm == Init /\ [][NextConfirm]_vars

(* ------------------------ a conversation kept going ------------------- *)

\* what the LLM calls return while the conversation is kept going: every
\* call returns
LiveUserInputs == UserInputs

LiveChecklistReplies == {g \in ChecklistReplies : ~g.raised} \cup {NotCalled}

LiveParserReplies ==
  {r \in ParserReplies :
     ~r.raised /\ r.content \in {<<Prose>>, <<LB, mBudget, RB>>,
                                 <<Prose, LB, mCarType, RB, Prose>>,
                                 <<LB, mBudget, mCarType, RB>>,
                                 <<LB, mColor, RB>>}}

LiveQuestionReplies ==
  {q \in QuestionReplies : ~q.raised /\ q.content = "Which type?"} \cup {NotCalled}

\* a request whose LLM calls and whose insert all return; requests beyond
\* MaxTurns are served and no longer counted
LiveServed(run, gen, reply, question) ==
  /\ Respond(run, TRUE)
  /\ trace' = run.trace
  /\ parserInput' = run.parsed
  /\ llm' = Calls(run, gen, reply, question)
  /\ turns' = IF turns < MaxTurns THEN turns + 1 ELSE turns

\* the first request of the conversation
LiveStart ==
  /\ state = EmptyDict
  /\ \E initial_query \in InitialQueries :
       /\ \E gen \in GenChoices(initial_state(initial_query)) \cap LiveChecklistReplies :
            \E reply \in LiveParserReplies :
              \E question \in QuestionChoices(initial_state(initial_query), gen, reply)
                                \cap LiveQuestionReplies :
                LiveServed(run_first_turn(initial_query, gen, reply, question),
                           gen, reply, question)
       /\ request' = [user_input |-> initial_query, has_state |-> FALSE,
                      state |-> EmptyDict]
       /\ supplied' = EmptyDict
       /\ dup' = NoDup
       /\ UNCHANGED <<conv, probe>>

\* the caller answers the question: the next request carries the returned
\* state, as long as the conversation is not complete; the parser's LLM
\* answers with one of replies
LiveTurn(replies) ==
  /\ state # EmptyDict
  /\ ~is_conversation_complete(state)
  /\ \E user_input \in LiveUserInputs :
       /\ \E gen \in GenChoices(appended(state, user_input)) \cap LiveChecklistReplies :
            \E reply \in replies :
              \E question \in QuestionChoices(appended(state, user_input), gen, reply)
                                \cap LiveQuestionReplies :
                LiveServed(run_next_turn(state, user_input, gen, reply, question),
                           gen, reply, question)
       /\ request' = [user_input |-> user_input, has_state |-> TRUE,
                      state |-> state]
       /\ supplied' = appended(state, user_input)
       /\ dup' = NoDup
       /\ UNCHANGED <<conv, probe>>

LiveContinue == LiveTurn(LiveParserReplies)

\* the parser's replies that decode to an object with key k
Covering(k) ==
  {r \in LiveParserReplies : k \in DOMAIN MergeReply(EmptyDict, r.content)}

NextLive == LiveStart \/ LiveContinue

\* a request can be submitted: the conversation has a state and is not
\* complete.  Then a request covering any key is enabled and changes the
\* state of the model (two replies cover each key, so one of them differs
\* from the last).
Submittable == state # EmptyDict /\ ~is_conversation_complete(state)

\* the step just taken was a request whose parser reply covers key k
Covers(k) == request'.has_state /\ llm'.parser \in Covering(k)

\* the parser's replies come to cover every essential key: weak fairness,
\* WF_vars(LiveTurn(Covering(k))), with ENABLED written out as Submittable
SpecLive ==
  /\ Init
  /\ [][NextLive]_vars
  /\ \A k \in {"budget", "car_type"} :
       []<>(~Submittable) \/ []<><<Covers(k)>>_vars

(* --------------------------- single node calls ------------------------- *)

\* longest checklist a node is called with
MaxChecklist == 2

\* longest parser reply, in tokens, of which every one is tried
MaxReply == 3

SeqsUpTo(S, n) == UNION {[1..m -> S] : m \in 0..n}

ChecklistKeys == {"budget", "car_type", "color"}

\* checklists as the generator's LLM may return them, a repeated key included
ProbeEssentials == SeqsUpTo(ChecklistKeys, MaxChecklist)

ProbeOptionals == SeqsUpTo(ChecklistKeys, 1)

\* extracted_requirements as earlier parses may have left them
ProbeMappings ==
  UNION {[K -> {"1500", "null"}] : K \in SUBSET ChecklistKeys}

ProbeTokens == {LB, RB, Prose, mBudget, mBudgetNull, mBudgetEmpty, mColor, kBudget}

\* replies longer than MaxReply: fenced or nested objects, two objects
LongReplies ==
  {<<Prose, LB, mBudget, mColor, RB, Prose>>,
   <<Prose, Prose, LB, mBudgetNull, RB, Prose>>,
   <<LB, kBudget, LB, RB, RB>>,
   <<LB, kBudget, LB, mColor, RB, RB>>,
   <<Prose, LB, kBudget, LB, mColor, RB, mCarType, RB>>,
   <<LB, mBudget, RB, Prose, LB, mColor, RB>>,
   <<LB, kBudget, LB, mColor, RB>>}

ProbeReplies == SeqsUpTo(ProbeTokens, MaxReply) \cup LongReplies

\* the graph state a node is called with
ProbeState(essential, optional, extracted) ==
  [initial_query |-> "I need a car",
   messages |-> <<HumanMessage("I need a car"),
                  SystemMessage(ChecklistText("Car", essential)),
                  HumanMessage("an SUV")>>,
   category |-> "Car",
   essential_checklist |-> essential,
   optional_checklist |-> optional,
   extracted_requirements |-> extracted]

\* the same before any parse has run
Unparsed(st) == [k \in (DOMAIN st) \ {"extracted_requirements"} |-> st[k]]

ProbeStates ==
  {ProbeState(e, o, x) : e \in ProbeEssentials, o \in ProbeOptionals,
                         x \in ProbeMappings}

ParserStates ==
  LET parsed == {ProbeState(e, <<"color">>, x) :
                   e \in {<<"budget">>, <<"budget", "car_type">>},
                   x \in {EmptyDict, [budget |-> "900"],
                          [budget |-> "900", color |-> "blue"]}}
  IN parsed \cup {Unparsed(st) : st \in parsed}

nodeVars ==
  <<state, supplied, request, trace, parserInput, llm, result, requirements,
    turns, dup, conv>>

\* _router_node called on a graph state
CallRouter ==
  /\ probe.op = "none"
  /\ \E st \in ProbeStates :
       probe' = [op |-> "_router_node", st |-> st, out |-> _router_node(st)]
  /\ UNCHANGED nodeVars

\* _update_and_parse_node called on a graph state with the LLM's reply, its
\* output applied to the graph state, and the router called on the result
CallParser ==
  /\ probe.op = "none"
  /\ \E st \in ParserStates, raw \in ProbeReplies :
       LET out == _update_and_parse_node(st, [raised |-> FALSE, content |-> raw])
       IN probe' = [op |-> "_update_and_parse_node", st |-> st, raw |-> raw,
                    out |-> out,
                    route |-> _router_node(ApplyToGraph(st, out))]
  /\ UNCHANGED nodeVars

\* _ask_question_node called on a graph state with the LLM's question
CallAsk ==
  /\ probe.op = "none"
  /\ \E st \in ProbeStates, question \in Questions :
       probe' = [op |-> "_ask_question_node", st |-> st,
                 prompt |-> QuestionPrompt(st),
                 out |-> _ask_question_node(st, [raised |-> FALSE,
                                                 content |-> question])]
  /\ UNCHANGED nodeVars

\* _final_summary_node called on a graph state
CallFinal ==
  /\ probe.op = "none"
  /\ \E st \in ProbeStates :
       probe' = [op |-> "_final_summary_node", st |-> st,
                 out |-> _final_summary_node(st)]
  /\ UNCHANGED nodeVars

NextNodes == CallRouter \/ CallParser \/ CallAsk \/ CallFinal

SpecNodes == Init /\ [][NextNodes]_vars

(* ------------------------- observation helpers ------------------------- *)

Ok == result.status = "ok"

SetOf(seq) == {seq[i] : i \in DOMAIN seq}

Extracted(st) == Get(st, "extracted_requirements", EmptyDict)

\* the dict the graph was started on while serving the last request
InputState ==
  IF request.has_state THEN supplied ELSE initial_state(request.user_input)

\* the reply the parser's LLM call returned in the last request
ParserText == llm.parser.content

ParserReplied == "notCalled" \notin DOMAIN llm.parser /\ ~llm.parser.raised

\* shapes of a reply that holds no decodable JSON object
NoOpen(raw) == \A i \in DOMAIN raw : raw[i] # LB

NoClose(raw) == \A i \in DOMAIN raw : raw[i] # RB

CloseBeforeOpen(raw) ==
  /\ ~NoOpen(raw)
  /\ ~NoClose(raw)
  /\ \A i, j \in DOMAIN raw : (raw[i] = LB /\ raw[j] = RB) => j < i

InvalidBetween(raw) ==
  /\ ~NoOpen(raw)
  /\ ~NoClose(raw)
  /\ ~CloseBeforeOpen(raw)
  /\ \E i, j \in DOMAIN raw :
       /\ raw[i] = LB /\ \A k \in 1..(i - 1) : raw[k] # LB
       /\ raw[j] = RB /\ \A k \in (j + 1)..Len(raw) : raw[k] # RB
       /\ \E k \in (i + 1)..(j - 1) : raw[k] \notin Members

Malformed(raw) ==
  NoOpen(raw) \/ NoClose(raw) \/ CloseBeforeOpen(raw) \/ InvalidBetween(raw)

(* -------------------------------- C1 ----------------------------------- *)

\* C1: a state returned by a turn is reported complete (next =
\* "end_conversation", is_complete true) exactly when every key of its
\* essential_checklist is a key of its extracted_requirements; otherwise its
\* next is "wait_for_user_input", whatever next the input state carried.
C1_CompletionCorrectness ==
  state # EmptyDict =>
    LET covered == SetOf(state["essential_checklist"]) \subseteq Keys(Extracted(state))
    IN /\ is_conversation_complete(state) <=> covered
       /\ covered => state["next"] = "end_conversation"
       /\ ~covered => state["next"] = "wait_for_user_input"
       /\ Ok => (result.is_complete <=> covered)

\* a turn that got a state marked complete and returned one awaiting input
C1_Witness ==
  /\ Ok
  /\ request.has_state
  /\ supplied["next"] = "end_conversation"
  /\ state["next"] = "wait_for_user_input"
  /\ ~(SetOf(state["essential_checklist"]) \subseteq Keys(Extracted(state)))

(* -------------------------------- C2 ----------------------------------- *)

\* C2: once the first turn has set category, essential_checklist and
\* optional_checklist, every later turn returns a state with the same three
\* values, for every checklist the generator can return, the empty
\* essential_checklist included.
C2_ChecklistStability ==
  (Ok /\ request.has_state) =>
    /\ state["category"] = supplied["category"]
    /\ state["essential_checklist"] = supplied["essential_checklist"]
    /\ state["optional_checklist"] = supplied["optional_checklist"]

(* -------------------------------- C3 ----------------------------------- *)

\* C3: in every turn in which the parser runs, the text it submits for
\* extraction is the most recent user utterance: the initial query on the
\* first turn, user_input on a later turn; never a system-authored message.
C3_ParserReadsUserUtterance ==
  parserInput # NotRun =>
    parserInput = [kind |-> "text", text |-> request.user_input]

(* -------------------------------- C4 ----------------------------------- *)

\* C4: for every turn and every parser reply, decodable or not, the keys of
\* extracted_requirements in the returned state include the keys of
\* extracted_requirements in the input state.
C4_MonotonicExtraction ==
  Ok => Keys(Extracted(InputState)) \subseteq Keys(Extracted(state))

\* a later turn whose input already held a key and whose reply added one
C4_Witness ==
  /\ Ok
  /\ request.has_state
  /\ Keys(Extracted(supplied)) # {}
  /\ Keys(Extracted(supplied)) # Keys(Extracted(state))
  /\ ParserReplied

(* -------------------------------- C5 ----------------------------------- *)

\* C5: when the parser's reply holds no decodable JSON object (no "{", no
\* "}", the last "}" before the first "{", or invalid JSON between them),
\* the parser raises nothing and the turn goes on to the router's choice;
\* extracted_requirements of the returned state equals its value before the
\* parse, and with essentials still missing the turn ends awaiting the user
\* with complete false.
C5_MalformedReplyTolerance ==
  (ParserReplied /\ Malformed(ParserText)) =>
    /\ trace[Len(trace)] \in {"ask_question", "final_summary"}
    /\ trace[Len(trace) - 1] = "update_and_parse"
    /\ Ok =>
         /\ Extracted(state) = Extracted(InputState)
         /\ ~(SetOf(state["essential_checklist"]) \subseteq Keys(Extracted(state)))
              => /\ trace[Len(trace)] = "ask_question"
                 /\ state["next"] = "wait_for_user_input"
                 /\ ~result.is_complete

\* braces in the wrong order, with a requirement already extracted
C5_Witness ==
  /\ Ok
  /\ ParserReplied
  /\ CloseBeforeOpen(ParserText)
  /\ Keys(Extracted(state)) # {}
  /\ state["next"] = "wait_for_user_input"

(* -------------------------------- C6 ----------------------------------- *)

IsPrefix(a, b) == Len(a) <= Len(b) /\ SubSeq(b, 1, Len(a)) = a

\* C6: the message log is append-only across turns: the log of the state a
\* turn returns starts with the log of the input state followed by the new
\* user message (the log handed to the graph), and only gains the system
\* messages of the turn after it.
C6_MessageLogAppendOnly ==
  Ok => /\ IsPrefix(InputState["messages"], state["messages"])
        /\ Len(state["messages"]) > Len(InputState["messages"])

(* -------------------------------- C7 ----------------------------------- *)

\* C7: once a turn has returned complete, a later ContinueConversation with
\* the completed state is not served: it enters no parser, question or
\* finalizer step and inserts no Requirement record.
C7_HardTerminal ==
  (request.has_state /\ is_conversation_complete(supplied)) =>
    /\ trace = <<>>
    /\ result.requirement_id = 0

(* -------------------------------- C8 ----------------------------------- *)

Recognized(st) ==
  SetOf(st["essential_checklist"]) \cup SetOf(st["optional_checklist"])

\* C8 as stated: every key of extracted_requirements of a returned state
\* belongs to essential_checklist \cup optional_checklist, whatever keys the
\* parser's JSON reply contains.
C8_OnlyChecklistKeys ==
  state # EmptyDict => Keys(Extracted(state)) \subseteq Recognized(state)

\* the keys of the members a reply carries
ReplyKeys(raw) == {MemberKey[raw[i]] : i \in {j \in DOMAIN raw : raw[j] \in Members}}

\* C8 amended: every key of extracted_requirements of a returned state is a
\* key of the input state's extracted_requirements or a key of the JSON
\* object the parser's reply of that turn carries, whether or not it belongs
\* to a checklist.
C8_KeysFromInputOrReply ==
  Ok => Keys(Extracted(state)) \subseteq
          Keys(Extracted(InputState)) \cup
          (IF ParserReplied THEN ReplyKeys(ParserText) ELSE {})

\* a reply key outside both checklists was stored
C8_Witness ==
  /\ Ok
  /\ ParserReplied
  /\ \E k \in ReplyKeys(ParserText) :
       k \in Keys(Extracted(state)) /\ k \notin Recognized(state)

(* -------------------------------- C9 ----------------------------------- *)

\* C9: the message returned for a turn is the system message its last step
\* emitted: the question of this turn's question call when the turn ends
\* awaiting input, the summary of the returned requirements when it ends
\* complete; never a user message, the checklist message or the message of
\* an earlier turn.
C9_ResponseIsTerminalMessage ==
  Ok =>
    /\ state["messages"][Len(state["messages"])].role = "system"
    /\ trace[Len(trace)] = "ask_question" =>
         /\ ~result.is_complete
         /\ result.response = [kind |-> "question", text |-> llm.question.content]
    /\ trace[Len(trace)] = "final_summary" =>
         /\ result.is_complete
         /\ result.response =
              [kind |-> "summary", category |-> state["category"],
               lines |-> SummaryLines(state["essential_checklist"]
                                        \o state["optional_checklist"],
                                      Extracted(state))]

\* a later turn whose question differs from the message the input carried
C9_Witness ==
  /\ Ok
  /\ request.has_state
  /\ trace[Len(trace)] = "ask_question"
  /\ result.response.kind = "question"
  /\ result.response # supplied["messages"][1].content

(* -------------------------------- C10 ---------------------------------- *)

StateFields ==
  {"initial_query", "category", "essential_checklist", "optional_checklist",
   "extracted_requirements", "messages", "next"}

\* C10: the state returned by a successful turn holds initial_query,
\* category, both checklists, extracted_requirements, a non-empty message
\* log and next, after any number of turns, so the next turn finds every
\* field it reads.
C10_Resumable ==
  state # EmptyDict =>
    /\ StateFields \subseteq DOMAIN state
    /\ state["messages"] # <<>>

\* a state returned by a turn that was itself resumed from a returned state
C10_Witness ==
  /\ Ok
  /\ request.has_state
  /\ turns >= 2
  /\ ParserReplied
  /\ Malformed(ParserText)

(* -------------------------------- C11 ---------------------------------- *)

\* C11: with an LLM that is a function of its prompt, a second
\* ContinueConversation made with the same state and the same user_input
\* returns the same message, state and complete flag as the first, and the
\* state it is handed is the state the first call was handed: the first
\* call did not alter it.
C11_DuplicateSubmission ==
  dup.done =>
    /\ ~dup.raised
    /\ dup.state = state
    /\ get_agent_response(dup.state) = result.response
    /\ is_conversation_complete(dup.state) = result.is_complete
    /\ dup.observed = request.state

(* -------------------------------- C12 ---------------------------------- *)

\* C12: when the question formulator's or the checklist generator's LLM call
\* fails during a turn, the caller gets an error and the state it supplied
\* is exactly as it was before the call: its message log has not gained the
\* user utterance and its extracted_requirements is not updated.
C12_FatalFailureLeavesState ==
  (request.has_state /\ (llm.checklist.raised \/ llm.question.raised)) =>
    /\ result.status = "error"
    /\ state = request.state
    /\ supplied = request.state

(* -------------------------------- C13 ---------------------------------- *)

\* C13: when the checklist generator's LLM call fails on the first turn, the
\* turn fails as a whole: no state is returned, no category or checklist is
\* stored, the parser, the question formulator and the finalizer are not
\* entered, and no Requirement row is inserted.
C13_GeneratorFailureFailsTurn ==
  (~request.has_state /\ llm.checklist.raised) =>
    /\ result.status = "error"
    /\ state = EmptyDict
    /\ trace = <<"generate_checklist">>
    /\ parserInput = NotRun
    /\ llm.parser = NotCalled
    /\ llm.question = NotCalled
    /\ requirements = <<>>

\* a first turn whose generator call raised
C13_Witness ==
  /\ ~request.has_state
  /\ turns >= 1
  /\ llm.checklist.raised
  /\ result.status = "error"

(* -------------------------------- C14 ---------------------------------- *)

\* C14: when the checklist generator returns an empty essential_checklist,
\* the first turn goes to the finalizer with complete true, whatever was
\* extracted, and the question formulator runs in no turn of that
\* conversation.
C14_EmptyEssentialFinalizes ==
  /\ (~request.has_state /\ ~llm.checklist.raised /\ ~llm.parser.raised
      /\ "notCalled" \notin DOMAIN llm.checklist
      /\ llm.checklist.essential_checklist = <<>>)
       => /\ trace = <<"generate_checklist", "update_and_parse", "final_summary">>
          /\ result.status = "ok" => result.is_complete
  /\ (request.has_state /\ request.state["essential_checklist"] = <<>>)
       => \A i \in DOMAIN trace : trace[i] # "ask_question"

(* -------------------------------- C15 ---------------------------------- *)

SummaryFields ==
  {"category", "essential_checklist", "optional_checklist", "extracted_requirements"}

\* C15: the finalizer's summary depends on category, the two checklists and
\* extracted_requirements only: run again on the state it returned, or on
\* those four values alone, it produces the same summary, and it writes none
\* of the four.
C15_IdempotentFinalization ==
  (Ok /\ trace[Len(trace)] = "final_summary") =>
    LET again == _final_summary_node(state)
        alone == _final_summary_node([k \in SummaryFields |-> state[k]])
    IN /\ again["messages"] = state["messages"]
       /\ alone["messages"] = state["messages"]
       /\ DOMAIN again \cap SummaryFields = {}
       /\ \A k \in SummaryFields : FoldEvent(state, again)[k] = state[k]

\* a later turn that ended in a summary listing a value, with a checklist
\* key still without one
C15_Witness ==
  /\ Ok
  /\ request.has_state
  /\ trace[Len(trace)] = "final_summary"
  /\ result.response.lines # <<>>
  /\ \E i \in DOMAIN state["optional_checklist"] :
       state["optional_checklist"][i] \notin Keys(Extracted(state))

(* -------------------------------- C16 ---------------------------------- *)

Unchecklisted(st) ==
  "essential_checklist" \notin DOMAIN st \/ st["essential_checklist"] = <<>>

Violates(st) == Unchecklisted(st) \/ st["messages"] = <<>>

\* C16 as stated: ContinueConversation with a state whose essential_checklist
\* is absent or empty, or whose message log is empty, fails fast: it enters
\* no generator, parser, question or finalizer step and returns no state.
C16_FailsFast ==
  (request.has_state /\ Violates(request.state)) =>
    /\ result.status = "error"
    /\ trace = <<>>

\* C16 amended: such a call is served, not rejected.  With essential_checklist
\* absent or empty the turn starts at the checklist generator; with only the
\* message log empty it starts at the parser, which reads the new user
\* utterance; when no LLM call fails and the turn ends in a question, a
\* complete state is returned.
C16_ViolatingStateIsServed ==
  (request.has_state /\ Violates(request.state)) =>
    /\ trace # <<>>
    /\ Unchecklisted(request.state) => trace[1] = "generate_checklist"
    /\ ~Unchecklisted(request.state) =>
         /\ trace[1] = "update_and_parse"
         /\ parserInput = [kind |-> "text", text |-> request.user_input]
    /\ (trace[Len(trace)] = "ask_question" /\ ~llm.question.raised) =>
         /\ Ok
         /\ StateFields \subseteq DOMAIN state
         /\ state["essential_checklist"] # <<>>

\* a state without checklist keys was sent and a state came back
C16_Witness ==
  /\ Ok
  /\ request.has_state
  /\ "essential_checklist" \notin DOMAIN request.state
  /\ trace[1] = "generate_checklist"
  /\ StateFields \subseteq DOMAIN state

(* -------------------------------- C18 ---------------------------------- *)

\* C18: initial_query is immutable.  The state returned by the first turn
\* carries the query given to StartConversation, the state returned by a later
\* turn carries the initial_query of the state it was given, and no node
\* output (generator, parser, question formulator, finalizer) has the key.
C18_InitialQueryImmutable ==
  /\ (Ok /\ ~request.has_state) => state["initial_query"] = request.user_input
  /\ (Ok /\ request.has_state) =>
       state["initial_query"] = request.state["initial_query"]
  /\ state # EmptyDict =>
       /\ state["initial_query"] \in InitialQueries
       /\ \A gen \in {g \in ChecklistReplies : ~g.raised} :
            "initial_query" \notin DOMAIN _generate_checklist_node(state, gen)
       /\ \A reply \in {r \in ParserReplies : ~r.raised} :
            "initial_query" \notin DOMAIN _update_and_parse_node(state, reply)
       /\ \A question \in {q \in QuestionReplies : ~q.raised} :
            "initial_query" \notin DOMAIN _ask_question_node(state, question)
       /\ "initial_query" \notin DOMAIN _final_summary_node(state)

\* a later turn returned a state after user utterances other than the query
C18_Witness ==
  /\ Ok
  /\ request.has_state
  /\ turns >= 3
  /\ request.user_input # state["initial_query"]
  /\ state["initial_query"] = request.state["initial_query"]

(* -------------------------------- C19 ---------------------------------- *)

\* C19: the checklist generator runs exactly once per conversation: in the
\* first turn and in no later turn, whatever checklist it returned.
C19_GeneratorRunsOnce ==
  /\ (~request.has_state /\ turns >= 1) => trace[1] = "generate_checklist"
  /\ request.has_state => "generate_checklist" \notin SetOf(trace)

(* -------------------------------- C20 ---------------------------------- *)

TurnShapes ==
  {g \o <<"update_and_parse", t>> :
     g \in {<<>>, <<"generate_checklist">>},
     t \in {"ask_question", "final_summary"}}

\* C20: every successful turn runs the generator at most once, then the parser
\* exactly once, then exactly one of question formulator and finalizer, and
\* halts; each LLM-backed step that ran made its one call and no other step
\* called the LLM.
C20_TurnStructure ==
  Ok =>
    /\ trace \in TurnShapes
    /\ (trace[1] = "generate_checklist") <=> (llm.checklist # NotCalled)
    /\ llm.parser # NotCalled
    /\ (trace[Len(trace)] = "ask_question") <=> (llm.question # NotCalled)
    /\ (trace[Len(trace)] = "final_summary") <=> result.is_complete

\* a first turn that generated, parsed and asked
C20_Witness ==
  /\ Ok
  /\ trace = <<"generate_checklist", "update_and_parse", "ask_question">>
  /\ llm.question # NotCalled

(* -------------------------------- C17 ---------------------------------- *)

\* what the request last served for a conversation yields when it runs alone
\* with the same LLM answers and the same outcome of the insert
Alone(run) ==
  LET solo == RunGraph(run.input, run.gen, run.reply, run.question)
      failed == \/ solo.raised
                \/ is_conversation_complete(solo.final_state) /\ ~run.inserted
  IN /\ (run.outcome = "error") <=> failed
     /\ run.outcome = "ok" =>
          /\ run.held = solo.final_state
          /\ run.response = get_agent_response(solo.final_state)

\* C17: conversations are independent.  Under every interleaving of the node
\* steps of two conversations served by the one handler, a step of one
\* conversation leaves everything of the other unchanged, and each request
\* that finishes returns the state and the message it returns when run alone.
C17_ConversationsIndependent ==
  /\ [](\A c \in Convs :
          (conv[c].pc = "idle" /\ conv[c].turns >= 1) => Alone(conv[c]))
  /\ [][\A c \in Convs :
          conv'[c] # conv[c] => \A d \in Convs \ {c} : conv'[d] = conv[d]]_vars

\* both conversations were answered by requests whose steps overlapped
C17_Witness ==
  /\ \A c \in Convs :
       /\ conv[c].pc = "idle"
       /\ conv[c].outcome = "ok"
       /\ conv[c].overlapped
  /\ conv[1].held # conv[2].held

(* -------------------------------- C21 ---------------------------------- *)

\* C21: the completion router is a pure decision.  It returns "final_summary"
\* when no key of essential_checklist is missing from the keys of
\* extracted_requirements and "ask_question" otherwise; the result is the same
\* for every optional_checklist, message log, control signal and set of
\* extracted values; and what it returns is a route, not an update of the state.
C21_RouterPure ==
  probe.op = "_router_node" =>
    LET st == probe.st
        missing_essential == SetOf(st["essential_checklist"])
                               \ DOMAIN st["extracted_requirements"]
    IN /\ probe.out = IF missing_essential = {} THEN "final_summary"
                                                 ELSE "ask_question"
       /\ \A o \in ProbeOptionals, x \in ProbeMappings,
             log \in {<<>>, <<HumanMessage("not sure yet")>>},
             nxt \in {"wait_for_user_input", "end_conversation"} :
            DOMAIN x = DOMAIN st["extracted_requirements"] =>
              LET other == [st EXCEPT !["optional_checklist"] = o,
                                      !["extracted_requirements"] = x,
                                      !["messages"] = log]
              IN /\ _router_node(other) = probe.out
                 /\ _router_node(DictUpdate(other, [next |-> nxt])) = probe.out

\* the router finalized although an optional key was not extracted
C21_Witness ==
  /\ probe.op = "_router_node"
  /\ probe.out = "final_summary"
  /\ probe.st["essential_checklist"] # <<>>
  /\ \E i \in DOMAIN probe.st["optional_checklist"] :
       probe.st["optional_checklist"][i]
         \notin DOMAIN probe.st["extracted_requirements"]

(* -------------------------------- C22 ---------------------------------- *)

\* whether the reply has a "{" and a "}", and the text from the first "{" to
\* the last "}"
HasBraces(raw) == Find(raw, LB) # -1 /\ RFind(raw, RB) # -1

Candidate(raw) == Slice(raw, Find(raw, LB), RFind(raw, RB) + 1)

Decodes(raw) == HasBraces(raw) /\ JsonValid(Candidate(raw))

\* the mapping the parser was called with, and the one it returned
Before == Get(probe.st, "extracted_requirements", EmptyDict)

After == probe.out["extracted_requirements"]

\* C22: last-write-wins merge.  When the parser's reply decodes to an object
\* J, extracted_requirements after the parse has the keys of the previous
\* mapping and of J, every key of J with J's value and every other key with
\* its earlier value.
C22_LastWriteWins ==
  (probe.op = "_update_and_parse_node" /\ Decodes(probe.raw)) =>
    LET J == JsonObject(Candidate(probe.raw))
    IN /\ DOMAIN After = DOMAIN Before \cup DOMAIN J
       /\ \A k \in DOMAIN J : After[k] = J[k]
       /\ \A k \in DOMAIN Before \ DOMAIN J : After[k] = Before[k]

\* a reply replaced an earlier value and left another key as it was
C22_Witness ==
  /\ probe.op = "_update_and_parse_node"
  /\ Decodes(probe.raw)
  /\ Before = [budget |-> "900", color |-> "blue"]
  /\ After = [budget |-> "1500", color |-> "blue"]

(* -------------------------------- C23 ---------------------------------- *)

\* positions of the first "{" and of the last "}" of a reply
FirstOpen(raw) ==
  CHOOSE i \in DOMAIN raw : raw[i] = LB /\ \A j \in 1..(i - 1) : raw[j] # LB

LastClose(raw) ==
  CHOOSE i \in DOMAIN raw : raw[i] = RB /\ \A j \in (i + 1)..Len(raw) : raw[j] # RB

\* text that holds neither "{" nor "}"
Paddings == SeqsUpTo(ProbeTokens \ {LB, RB}, 1) \cup {<<Prose, Prose>>}

\* C23: best-effort JSON extraction.  The parser's result is decided by the
\* text from the first "{" to the last "}" inclusive: that text is decoded
\* and, when it is an object, merged; text without braces put before and
\* after the reply does not change the result; a reply with no "{" or no "}"
\* leaves the mapping as it was.
C23_BestEffortExtraction ==
  probe.op = "_update_and_parse_node" =>
    LET raw == probe.raw
        braces == (\E i \in DOMAIN raw : raw[i] = LB) /\ (\E i \in DOMAIN raw : raw[i] = RB)
        payload == SubSeq(raw, FirstOpen(raw), LastClose(raw))
    IN /\ braces =>
            After = IF JsonValid(payload)
                      THEN DictUpdate(Before, JsonObject(payload))
                      ELSE Before
       /\ ~braces => After = Before
       /\ \A pre \in Paddings, post \in Paddings :
            _update_and_parse_node(probe.st, [raised |-> FALSE,
                                              content |-> pre \o raw \o post])
              = probe.out

\* an object between prose was merged
C23_Witness ==
  /\ probe.op = "_update_and_parse_node"
  /\ probe.raw = <<Prose, LB, mBudget, mColor, RB, Prose>>
  /\ Before = [budget |-> "900"]
  /\ After = [budget |-> "1500", color |-> "red"]

(* -------------------------------- C24 ---------------------------------- *)

\* C24: the finalizer's summary.  Going through essential_checklist and then
\* optional_checklist in order, every entry whose key is in
\* extracted_requirements has one line, with the key's label and its
\* extracted value, and an entry whose key is absent has none; the finalizer
\* emits that one system message and sets next to "end_conversation".
C24_SummaryLines ==
  probe.op = "_final_summary_node" =>
    LET st == probe.st
        checklist == st["essential_checklist"] \o st["optional_checklist"]
        final_reqs == st["extracted_requirements"]
        present == {i \in DOMAIN checklist : checklist[i] \in DOMAIN final_reqs}
        before(i) == Cardinality({j \in present : j < i})
        message == probe.out["messages"][1]
        lines == message.content.lines
    IN /\ DOMAIN probe.out = {"messages", "next"}
       /\ probe.out["next"] = "end_conversation"
       /\ Len(probe.out["messages"]) = 1
       /\ message.role = "system"
       /\ message.content.kind = "summary"
       /\ message.content.category = st["category"]
       /\ Len(lines) = Cardinality(present)
       /\ \A i \in present :
            lines[before(i) + 1] = [label |-> TitleLabel(checklist[i]),
                                    value |-> final_reqs[checklist[i]]]
       /\ TitleLabel("car_type") = "Car Type"

\* a summary with an essential and an optional line, one essential key absent
C24_Witness ==
  /\ probe.op = "_final_summary_node"
  /\ probe.st["essential_checklist"] = <<"car_type", "budget">>
  /\ probe.st["optional_checklist"] = <<"color">>
  /\ probe.out["messages"][1].content.lines =
       <<[label |-> "Budget", value |-> "1500"],
         [label |-> "Color", value |-> "null"]>>

(* -------------------------------- C25 ---------------------------------- *)

\* C25: the question formulator.  The list it puts in the LLM's prompt holds,
\* in the order essential_checklist then optional_checklist, every entry
\* whose key is not in extracted_requirements and no other; it returns exactly
\* one system message, carrying the LLM's question, and next =
\* "wait_for_user_input"; extracted_requirements, category and both
\* checklists are as before in the graph state and in the folded state.
C25_QuestionFormulator ==
  probe.op = "_ask_question_node" =>
    LET st == probe.st
        checklist == st["essential_checklist"] \o st["optional_checklist"]
        absent == {i \in DOMAIN checklist :
                     checklist[i] \notin DOMAIN st["extracted_requirements"]}
        before(i) == Cardinality({j \in absent : j < i})
        missing == probe.prompt.missing
    IN /\ Len(missing) = Cardinality(absent)
       /\ \A i \in absent : missing[before(i) + 1] = checklist[i]
       /\ probe.prompt.category = st["category"]
       /\ probe.prompt.provided = st["extracted_requirements"]
       /\ DOMAIN probe.out = {"messages", "next"}
       /\ Len(probe.out["messages"]) = 1
       /\ probe.out["messages"][1].role = "system"
       /\ probe.out["messages"][1].content.kind = "question"
       /\ probe.out["messages"][1].content.text \in Questions
       /\ probe.out["next"] = "wait_for_user_input"
       /\ \A k \in SummaryFields :
            /\ ApplyToGraph(st, probe.out)[k] = st[k]
            /\ FoldEvent(st, probe.out)[k] = st[k]
       /\ ApplyToGraph(st, probe.out)["messages"]
            = st["messages"] \o probe.out["messages"]

\* a missing essential key is listed before a missing optional key
C25_Witness ==
  /\ probe.op = "_ask_question_node"
  /\ probe.st["essential_checklist"] = <<"budget", "car_type">>
  /\ probe.st["optional_checklist"] = <<"color">>
  /\ probe.prompt.missing = <<"car_type", "color">>

(* -------------------------------- C26 ---------------------------------- *)

\* C26: persistence on completion.  A request to the converse endpoint that
\* returns a response inserts a Requirement row if and only if the turn's
\* result is complete: one row, with status "Submitted" and the returned
\* state's initial_query and extracted_requirements, whose id is the
\* response's requirement_id; a turn that ends awaiting user input inserts
\* nothing and its requirement_id is null.
C26_PersistenceOnCompletion ==
  [][(turns' = turns + 1 /\ result'.status = "ok") =>
       /\ result'.is_complete <=> requirements' # requirements
       /\ result'.is_complete <=> result'.requirement_id # 0
       /\ result'.is_complete <=> state'["next"] = "end_conversation"
       /\ result'.is_complete =>
            /\ Len(requirements') = Len(requirements) + 1
            /\ SubSeq(requirements', 1, Len(requirements)) = requirements
            /\ requirements'[Len(requirements')].id = result'.requirement_id
            /\ requirements'[Len(requirements')].status = "Submitted"
            /\ requirements'[Len(requirements')].initial_query
                 = state'["initial_query"]
            /\ requirements'[Len(requirements')].extracted_requirements
                 = state'["extracted_requirements"]]_vars

\* a later turn completed and its row was stored after one turn that asked
C26_Witness ==
  /\ Ok
  /\ request.has_state
  /\ result.is_complete
  /\ Len(requirements) = 1
  /\ result.requirement_id = 1
  /\ requirements[1].extracted_requirements = state["extracted_requirements"]
  /\ requirements[1].extracted_requirements # EmptyDict

(* -------------------------------- C27 ---------------------------------- *)

\* the request carried a state that a turn had returned complete and whose
\* essential_checklist is not empty
ResumedComplete ==
  /\ request.has_state
  /\ Get(request.state, "next", "") = "end_conversation"
  /\ request.state["essential_checklist"] # <<>>

\* C27: completion is stable under further turns.  A run_next_turn on a state
\* returned complete, with a non-empty essential_checklist, enters neither the
\* generator nor the question formulator; whatever the user input and the
\* parser's reply, it goes from the parser to the finalizer, and the turn, if
\* answered, is complete.
C27_CompletionStable ==
  ResumedComplete =>
    /\ "ask_question" \notin SetOf(trace)
    /\ "generate_checklist" \notin SetOf(trace)
    /\ llm.question = NotCalled
    /\ ~llm.parser.raised => trace = <<"update_and_parse", "final_summary">>
    /\ Ok => /\ result.is_complete
             /\ state["next"] = "end_conversation"

\* a completed conversation was continued and completed again
C27_Witness ==
  /\ ResumedComplete
  /\ Ok
  /\ result.is_complete
  /\ Len(requirements) = 2
  /\ llm.parser.content \in {<<Prose>>, <<LB, mColor, RB>>}

(* -------------------------------- C28 ---------------------------------- *)

\* some key of the state's essential_checklist is not extracted yet
EssentialMissing ==
  \E i \in DOMAIN state["essential_checklist"] :
    state["essential_checklist"][i] \notin DOMAIN state["extracted_requirements"]

\* C28: progress.  With every LLM call returning, the caller submitting each
\* returned state again and the parser's replies coming to cover every key, a
\* conversation with a non-empty essential_checklist eventually returns
\* complete; and every turn that leaves an essential key missing ends in the
\* question formulator, awaiting user input, with complete = false.
C28_Progress ==
  /\ [](Ok =>
          IF EssentialMissing
            THEN /\ ~result.is_complete
                 /\ trace[Len(trace)] = "ask_question"
                 /\ state["next"] = "wait_for_user_input"
            ELSE result.is_complete)
  /\ (Ok /\ state["essential_checklist"] # <<>>) ~> (Ok /\ result.is_complete)

\* two essential keys came in different turns and the conversation completed
C28_Witness ==
  /\ Ok
  /\ result.is_complete
  /\ turns >= 3
  /\ state["essential_checklist"] = <<"budget", "car_type">>
  /\ request.has_state
  /\ "next" \in DOMAIN request.state
  /\ request.state["next"] = "wait_for_user_input"
  /\ DOMAIN request.state["extracted_requirements"] = {"car_type"}

(* -------------------------------- C29 ---------------------------------- *)

\* C29: completion depends on key presence only.  Every key of the object the
\* parser's reply decodes to is among the extracted keys after the parse,
\* whatever its value (null, an empty string, a nested object); the router,
\* called on the parse's result, finalizes exactly when every essential key is
\* among them, and decides the same with every value replaced.
C29_KeyPresenceOnly ==
  probe.op = "_update_and_parse_node" =>
    LET st == probe.st
        parsed == ApplyToGraph(st, probe.out)
        essential == SetOf(st["essential_checklist"])
    IN /\ Decodes(probe.raw) =>
            DOMAIN JsonObject(Candidate(probe.raw)) \subseteq DOMAIN After
       /\ probe.route = IF essential \subseteq DOMAIN After
                          THEN "final_summary" ELSE "ask_question"
       /\ \A v \in {"null", "", "{}", "1500"} :
            _router_node([parsed EXCEPT !["extracted_requirements"] =
                                          [k \in DOMAIN After |-> v]])
              = probe.route

\* {"budget": null} satisfied the one missing essential key
C29_Witness ==
  /\ probe.op = "_update_and_parse_node"
  /\ probe.raw = <<LB, mBudgetNull, RB>>
  /\ probe.st["essential_checklist"] = <<"budget">>
  /\ Before = EmptyDict
  /\ After = [budget |-> "null"]
  /\ probe.route = "final_summary"

(* -------------------------------- C30 ---------------------------------- *)

\* C30: the user confirmation gate.  handle_user_confirmation changes a
\* Requirement only when its status is "SentForUserConfirmation" and the
\* action is "approve", which sets status "UserConfirmed", or
\* "request_changes" with a non-empty comment, which sets status "Submitted"
\* and appends the comment to initial_query; nothing else of the table
\* changes.  In every other case (another status, no such Requirement, an
\* unknown action, request_changes without a comment) the request ends in an
\* error and the table is as before; so it is when the update itself fails.
C30_ConfirmationGate ==
  [][("action" \in DOMAIN request' /\ turns' = turns + 1) =>
       LET id == request'.requirement_id
           allowed ==
             /\ id \in DOMAIN requirements
             /\ requirements[id].status = "SentForUserConfirmation"
             /\ \/ request'.action = "approve"
                \/ /\ request'.action = "request_changes"
                   /\ request'.comment.given
                   /\ request'.comment.text # ""
           expected ==
             IF request'.action = "approve"
               THEN [requirements[id] EXCEPT !["status"] = "UserConfirmed"]
               ELSE [requirements[id] EXCEPT
                       !["status"] = "Submitted",
                       !["initial_query"] =
                          @ \o "\n\n--- User Requested Changes ---\n"
                            \o request'.comment.text]
       IN /\ ~allowed => /\ result'.status = "error"
                         /\ requirements' = requirements
          /\ allowed =>
               \/ /\ result'.status = "error"
                  /\ requirements' = requirements
               \/ requirements' = [requirements EXCEPT ![id] = expected]
          /\ result'.status = "ok" => result'.record = requirements'[id]]_vars

\* a change request was taken: the comment is in the query, and the status
\* is "Submitted" again
C30_Witness ==
  /\ "action" \in DOMAIN request
  /\ request.action = "request_changes"
  /\ result.status = "ok"
  /\ requirements[request.requirement_id].status = "Submitted"
  /\ requirements[request.requirement_id].initial_query
       = "I need a car\n\n--- User Requested Changes ---\ncheaper please"

====
